---- MODULE Spec2Model ----
(***************************************************************************)
(* Model of the pagination engine of mdToPdf (src/script.js):              *)
(* paginateContent packs the top-level blocks of the rendered HTML into    *)
(* A4 pages, drops leading blank pages and renders the pages with their    *)
(* "Page N" labels.                                                        *)
(*                                                                         *)
(* A block is a record [tag, kids, id]:                                    *)
(*   tag   "p"  an ordinary wrapper element (p, div, ...),                 *)
(*         "h"  a heading h1..h6,                                          *)
(*         "pb" the manual page break <div class="page-break">;            *)
(*   kids  the direct child nodes, each one of                             *)
(*         "br"  a <br> element,                                           *)
(*         "txt" a text node with visible text,                            *)
(*         "img" a child element that is or contains an <img>;             *)
(*   id    the position of the element in the parsed input (DOM node       *)
(*         identity; a shallow clone keeps it).                            *)
(***************************************************************************)
EXTENDS Integers, Sequences, FiniteSets, TLC

\* ------------------------------------------------------------------ bounds
\* Top-level blocks in the input, and size of the input: its top-level
\* blocks plus their child nodes.
MaxBlocks == 3
MaxSize == 7

\* ------------------------------------------------- measurement test double
\* Heights reported by the layout engine for one child node, in units.
BrH == 1
TxtH == 1
ImgH == 3
\* Content height of the measuring page (clientHeight - paddingBottom - 10).
PageHeight == 3

\* The 40-unit page with 1.1-unit filler paragraphs, in tenths of a unit: a
\* text node is then 0.1 unit tall.
ScenarioPageHeight == 400
FillerH == 11
Fillers == 40
TitleHeights == {10, 20, 180}
ShortHeights == {5, 20, 176, 177, 180}

VARIABLES elements, i, pages, currentPageHTML, currentPageElements,
          measurePage, measureAttached, previewContent, pc, htmlContent,
          tocEntries,
          maxBottom,   \* measured once, before the loop
          evictions    \* history: <<how, heading, block>> for every heading
                       \* taken off a page, how = "lookahead" or "overflow"

\* The editor and its preview timer (handleMarkdownInputChange).
VARIABLES now,            \* the clock, in ms
          markdownText,   \* the editor text, as the number of its revision
          hasCodeMirror,  \* the editor is a CodeMirror instance, not a textarea
          debounceTimer,  \* id of the timer set last, 0 before the first
          timers,         \* the timers pending in the event loop: [id, due]
          edits,          \* history: [at, handled] for every source edit
          runs            \* history: [at, text, by, n, c] for every preview run

\* The session of the tab (ensureSession, resetSessionWorkspace).
VARIABLES currentSessionId,  \* 0 stands for null
          sessionStored,     \* sessionStorage[SESSION_STORAGE_KEY], 0 if absent
          persistStored,     \* localStorage[SESSION_PERSIST_KEY], 0 if absent
          serverSessions,    \* the sessions the server would acknowledge
          issued,            \* number of sessions the server has created
          calls              \* the calls of ensureSession / resetSessionWorkspace

pvars == <<elements, i, pages, currentPageHTML, currentPageElements,
           measurePage, measureAttached, previewContent, pc, htmlContent,
           tocEntries, maxBottom, evictions>>
dvars == <<now, markdownText, hasCodeMirror, debounceTimer, timers, edits, runs>>
svars == <<currentSessionId, sessionStored, persistStored, serverSessions,
           issued, calls>>
\* What a run of the packer leaves alone.
others == <<dvars, svars>>

vars == <<pvars, dvars, svars>>

\* ----------------------------------------------------------------- helpers
Kid == {"br", "txt", "img"}
Tags == {"p", "h", "pb"}

RECURSIVE Flatten(_)
Flatten(ss) == IF ss = <<>> THEN <<>> ELSE Head(ss) \o Flatten(Tail(ss))

\* Mutant: pop() leaves the last entry in place.
Pop_keepsLast(s) == s

Pop(s) == SubSeq(s, 1, Len(s) - 1)
Last(s) == s[Len(s)]

KidHeight(k) == IF k = "br" THEN BrH ELSE IF k = "txt" THEN TxtH ELSE ImgH

CountKid(ks, kid) == Cardinality({j \in 1..Len(ks) : ks[j] = kid})

\* The sum of the heights of the nodes ks.
KidsHeight(ks) ==
  KidHeight("br") * CountKid(ks, "br") + KidHeight("txt") * CountKid(ks, "txt")
    + KidHeight("img") * CountKid(ks, "img")

RECURSIVE getUsedHeightPx(_)
getUsedHeightPx(mp) ==
  IF mp = <<>> THEN 0
  ELSE KidsHeight(Head(mp).kids) + getUsedHeightPx(Tail(mp))

isPageBreak(el) == el.tag = "pb"

\* Mutant: the tag test never matches.
isHeading_never(el) == FALSE

isHeading(el) == el.tag = "h"

HasKid(ks, k) == \E j \in 1..Len(ks) : ks[j] = k

isEffectivelyEmptyBlock(node) ==
  IF HasKid(node.kids, "img") THEN FALSE
  ELSE IF HasKid(node.kids, "txt") THEN FALSE
  ELSE TRUE

RECURSIVE DropLeadingBr(_)
DropLeadingBr(ks) ==
  IF ks = <<>> THEN <<>>
  ELSE IF Head(ks) = "br" THEN DropLeadingBr(Tail(ks))
  ELSE ks

\* Mutant: the loop also removes leading text nodes that are not blank.
trimLeadingBrOnPageStart_dropsText(node) ==
  IF node.kids = <<>> THEN node
  ELSE IF node.tag = "h" THEN node
  ELSE LET RECURSIVE D(_)
           D(ks) == IF ks = <<>> THEN <<>>
                    ELSE IF Head(ks) \in {"br", "txt"} THEN D(Tail(ks))
                    ELSE ks
       IN [node EXCEPT !.kids = D(node.kids)]

trimLeadingBrOnPageStart(node) ==
  IF node.kids = <<>> THEN node
  ELSE IF isHeading(node) THEN node
  ELSE [node EXCEPT !.kids = DropLeadingBr(node.kids)]

FirstImg(ks) == CHOOSE j \in 1..Len(ks) : ks[j] = "img" /\ \A m \in 1..(j-1) : ks[m] # "img"

\* Mutant: a split at index 0 is let through and a single non-empty part is
\* returned.
splitElementBeforeFirstImage_singlePart(el) ==
  IF ~HasKid(el.kids, "img") THEN <<>>
  ELSE LET splitIndex == FirstImg(el.kids) - 1
           before == [el EXCEPT !.kids = SubSeq(el.kids, 1, splitIndex)]
           after == [el EXCEPT !.kids = SubSeq(el.kids, splitIndex + 1, Len(el.kids))]
       IN (IF ~isEffectivelyEmptyBlock(before) THEN <<before>> ELSE <<>>)
          \o (IF ~isEffectivelyEmptyBlock(after) THEN <<after>> ELSE <<>>)

\* Mutant: the block is split after its first child, wherever the image is.
splitElementBeforeFirstImage_afterFirstChild(el) ==
  IF ~HasKid(el.kids, "img") \/ Len(el.kids) < 2 THEN <<>>
  ELSE LET before == [el EXCEPT !.kids = SubSeq(el.kids, 1, 1)]
           after == [el EXCEPT !.kids = SubSeq(el.kids, 2, Len(el.kids))]
           parts == (IF ~isEffectivelyEmptyBlock(before) THEN <<before>> ELSE <<>>)
                    \o (IF ~isEffectivelyEmptyBlock(after) THEN <<after>> ELSE <<>>)
       IN IF Len(parts) >= 2 THEN parts ELSE <<>>

\* Mutant: one surviving part is enough (parts.length >= 1).
splitElementBeforeFirstImage_anyParts(el) ==
  IF ~HasKid(el.kids, "img") THEN <<>>
  ELSE LET splitIndex == FirstImg(el.kids) - 1
       IN IF splitIndex <= 0 THEN <<>>
          ELSE LET before == [el EXCEPT !.kids = SubSeq(el.kids, 1, splitIndex)]
                   after == [el EXCEPT !.kids = SubSeq(el.kids, splitIndex + 1, Len(el.kids))]
               IN (IF ~isEffectivelyEmptyBlock(before) THEN <<before>> ELSE <<>>)
                  \o (IF ~isEffectivelyEmptyBlock(after) THEN <<after>> ELSE <<>>)

\* <<>> stands for null; otherwise <<before, after>>.
splitElementBeforeFirstImage(el) ==
  IF ~HasKid(el.kids, "img") THEN <<>>
  ELSE LET splitIndex == FirstImg(el.kids) - 1
       IN IF splitIndex <= 0 THEN <<>>
          ELSE LET before == [el EXCEPT !.kids = SubSeq(el.kids, 1, splitIndex)]
                   after == [el EXCEPT !.kids = SubSeq(el.kids, splitIndex + 1, Len(el.kids))]
                   parts == (IF ~isEffectivelyEmptyBlock(before) THEN <<before>> ELSE <<>>)
                            \o (IF ~isEffectivelyEmptyBlock(after) THEN <<after>> ELSE <<>>)
               IN IF Len(parts) >= 2 THEN parts ELSE <<>>

\* elements.splice(i, 1, ...parts)
Splice(es, k, parts) == SubSeq(es, 1, k - 1) \o parts \o SubSeq(es, k + 1, Len(es))

\* The tags-stripped, whitespace-free text of a page's HTML: one token per
\* visible text node, named by the block that holds it.
TextOfKids(ks, id) == [k \in 1..CountKid(ks, "txt") |-> id]

RECURSIVE StrippedText(_)
StrippedText(page) ==
  IF page = <<>> THEN <<>>
  ELSE TextOfKids(Head(page).kids, Head(page).id) \o StrippedText(Tail(page))

isPageHtmlEffectivelyEmpty(pageHtml) == Len(StrippedText(pageHtml)) = 0

\* Mutant: the loop runs while any page remains (pages.length > 0).
RECURSIVE FilterLeadingEmpty_lastToo(_)
FilterLeadingEmpty_lastToo(ps) ==
  IF Len(ps) > 0 /\ isPageHtmlEffectivelyEmpty(ps[1])
  THEN FilterLeadingEmpty_lastToo(Tail(ps))
  ELSE ps

\* Mutant: "if" in place of "while": at most one page is dropped.
FilterLeadingEmpty_once(ps) ==
  IF Len(ps) > 1 /\ isPageHtmlEffectivelyEmpty(ps[1]) THEN Tail(ps) ELSE ps

RECURSIVE FilterLeadingEmpty(_)
FilterLeadingEmpty(ps) ==
  IF Len(ps) > 1 /\ isPageHtmlEffectivelyEmpty(ps[1])
  THEN FilterLeadingEmpty(Tail(ps))
  ELSE ps

\* Mutant: the label uses the 0-based index.
PageLabel_zeroBased(index) == index

PageLabel(index) == index + 1

\* Mutant: no synthetic page when the page list is empty.
RenderedPages_noSynthetic(ps) ==
  [k \in 1..Len(ps) |-> [label |-> k, content |-> ps[k]]]

RenderedPages(ps) ==
  IF Len(ps) = 0 THEN << [label |-> 1, content |-> <<>>] >>
  ELSE [k \in 1..Len(ps) |-> [label |-> PageLabel(k - 1), content |-> ps[k]]]

\* ------------------------------------------------------- table of contents
\* A table of contents entry is named by the id of the heading it links to;
\* tocEntries maps it to the page number its .toc-page span shows.
HasAnchor(page, a) == \E j \in 1..Len(page) : page[j].tag = "h" /\ page[j].id = a

CountTag(blocks, upto, t) == Cardinality({k \in 1..upto : blocks[k].tag = t})

RECURSIVE CountImg(_, _)
CountImg(blocks, upto) ==
  IF upto = 0 THEN 0
  ELSE Cardinality({j \in 1..Len(blocks[upto].kids) : blocks[upto].kids[j] = "img"})
       + CountImg(blocks, upto - 1)

\* max(1, floor((1.5 paragraphs + 2 headings + 10 images) / 35) + 1) over the
\* content before the heading at position a.
estimatePageNumber(blocks, a) ==
  LET estimatedHeight10 == 15 * CountTag(blocks, a - 1, "p")
                           + 20 * CountTag(blocks, a - 1, "h")
                           + 100 * CountImg(blocks, a - 1)
      n == (estimatedHeight10 \div 350) + 1
  IN IF n > 1 THEN n ELSE 1

\* The entries replaceTOCMarkers generates for a [TOC] paragraph at position
\* t (0: no marker): one per heading after it.
GeneratedTOC(blocks, t) ==
  IF t = 0 THEN << >>
  ELSE [a \in {k \in (t + 1)..Len(blocks) : blocks[k].tag = "h"}
          |-> estimatePageNumber(blocks, a)]

\* The generated wrapper is a block of text only, and exists only when a
\* heading follows the marker.
IsTOCWrapper(blocks, t) ==
  /\ blocks[t].tag = "p"
  /\ Len(blocks[t].kids) > 0
  /\ \A j \in 1..Len(blocks[t].kids) : blocks[t].kids[j] = "txt"
  /\ \E k \in (t + 1)..Len(blocks) : blocks[k].tag = "h"

\* Mutant: the 0-based page index is written.
updateTOCPageNumbers_zeroBased(pv, toc) ==
  [a \in DOMAIN toc |->
     IF \E k \in 1..Len(pv) : HasAnchor(pv[k].content, a)
     THEN (CHOOSE k \in 1..Len(pv) :
             /\ HasAnchor(pv[k].content, a)
             /\ \A m \in 1..(k - 1) : ~HasAnchor(pv[m].content, a)) - 1
     ELSE toc[a]]

updateTOCPageNumbers(pv, toc) ==
  [a \in DOMAIN toc |->
     IF \E k \in 1..Len(pv) : HasAnchor(pv[k].content, a)
     THEN LET pageIndex == (CHOOSE k \in 1..Len(pv) :
                              /\ HasAnchor(pv[k].content, a)
                              /\ \A m \in 1..(k - 1) : ~HasAnchor(pv[m].content, a)) - 1
          IN pageIndex + 1
     ELSE toc[a]]

\* ------------------------------------------------------------------- input
RECURSIVE SumTo(_, _)
SumTo(lens, k) == IF k = 0 THEN 0 ELSE lens[k] + SumTo(lens, k - 1)

\* The parsed input: n blocks, block k with tag tags[k] and the lens[k] child
\* nodes of s that follow those of the blocks before it.
ParsedBlocks(n, tags, lens, s) ==
  [k \in 1..n |-> [tag |-> tags[k],
                   kids |-> SubSeq(s, SumTo(lens, k - 1) + 1, SumTo(lens, k)),
                   id |-> k]]

\* Any input within the bounds, on the small page.
SmallInput ==
  /\ \E n \in 0..MaxBlocks : \E tags \in [1..n -> Tags] :
       \E lens \in [1..n -> 0..(MaxSize - n)] :
         /\ n + SumTo(lens, n) <= MaxSize
         /\ \A k \in 1..n : tags[k] = "pb" => lens[k] = 0
         /\ \E s \in [1..SumTo(lens, n) -> Kid] : \E t \in 0..n :
              /\ t > 0 => IsTOCWrapper(ParsedBlocks(n, tags, lens, s), t)
              /\ elements = ParsedBlocks(n, tags, lens, s)
              /\ tocEntries = GeneratedTOC(ParsedBlocks(n, tags, lens, s), t)
  /\ maxBottom = PageHeight

TextBlock(tag, h, id) == [tag |-> tag, kids |-> [k \in 1..h |-> "txt"], id |-> id]

\* A title of height t, a short paragraph of height s and the fillers.
ScenarioBlocks(t, s) ==
  <<TextBlock("h", t, 1), TextBlock("p", s, 2)>>
    \o [k \in 1..Fillers |-> TextBlock("p", FillerH, 2 + k)]

ScenarioInput ==
  /\ \E t \in TitleHeights : \E s \in ShortHeights :
       /\ elements = ScenarioBlocks(t, s)
       /\ tocEntries = GeneratedTOC(ScenarioBlocks(t, s), 0)
  /\ maxBottom = ScenarioPageHeight

\* No edit has been made and no timer is set.
DebounceIdle ==
  /\ now = 0
  /\ markdownText = 0
  /\ debounceTimer = 0
  /\ timers = {}
  /\ edits = <<>>
  /\ runs = <<>>

\* No session is known and no call is under way.
SessionIdle ==
  /\ currentSessionId = 0
  /\ sessionStored = 0
  /\ persistStored = 0
  /\ serverSessions = {}
  /\ issued = 0
  /\ calls = <<>>

Init ==
  /\ SmallInput \/ ScenarioInput
  /\ DebounceIdle /\ hasCodeMirror = TRUE
  /\ SessionIdle
  /\ evictions = {}
  /\ htmlContent = elements
  /\ i = 1
  /\ pages = <<>>
  /\ currentPageHTML = <<>>
  /\ currentPageElements = <<>>
  /\ measurePage = <<>>
  /\ measureAttached = TRUE
  /\ previewContent = <<>>
  /\ pc = "loop"

\* ------------------------------------------------------- the packing loop
InLoop == pc = "loop" /\ i <= Len(elements)

element == elements[i]
hasNext == i < Len(elements)
nextElement == elements[i + 1]
isStartingNewPage == Len(measurePage) = 0
\* Mutant: the clone is trimmed wherever it lands on the page.
clone_alwaysTrimmed == trimLeadingBrOnPageStart(element)

clone == IF isStartingNewPage THEN trimLeadingBrOnPageStart(element) ELSE element
\* Mutant: the measurement is compared as if it were one unit taller.
used_tooTall == getUsedHeightPx(Append(measurePage, clone)) + 1

used == getUsedHeightPx(Append(measurePage, clone))

\* Mutant: the buffer is pushed without the length test.
FlushTo_unguarded(ps, buf) == Append(ps, buf)

FlushTo(ps, buf) == IF Len(buf) > 0 THEN Append(ps, buf) ELSE ps

\* Mutant: the marker is skipped without flushing the buffer.
PageBreakStep_noFlush ==
  /\ InLoop
  /\ isPageBreak(element)
  /\ i' = i + 1
  /\ UNCHANGED <<elements, pages, currentPageHTML, currentPageElements, measurePage,
                 measureAttached, previewContent, pc, htmlContent, tocEntries, maxBottom, evictions, others>>

\* Mutant: the marker empties the buffer but not the measuring page.
PageBreakStep_keepsMeasure ==
  /\ InLoop
  /\ isPageBreak(element)
  /\ pages' = FlushTo(pages, currentPageHTML)
  /\ currentPageHTML' = <<>>
  /\ currentPageElements' = <<>>
  /\ i' = i + 1
  /\ UNCHANGED <<elements, measurePage, measureAttached, previewContent, pc,
                 htmlContent, tocEntries, maxBottom, evictions, others>>

\* lines 1329-1337
PageBreakStep ==
  /\ InLoop
  /\ isPageBreak(element)
  /\ pages' = FlushTo(pages, currentPageHTML)
  /\ currentPageHTML' = <<>>
  /\ currentPageElements' = <<>>
  /\ measurePage' = <<>>
  /\ i' = i + 1
  /\ UNCHANGED <<elements, measureAttached, previewContent, pc, htmlContent, tocEntries, maxBottom, evictions, others>>

\* lines 1340-1348
SkipEmptyStep ==
  /\ InLoop
  /\ ~isPageBreak(element)
  /\ isStartingNewPage
  /\ isEffectivelyEmptyBlock(clone)
  /\ i' = i + 1
  /\ UNCHANGED <<elements, pages, currentPageHTML, currentPageElements,
                 measurePage, measureAttached, previewContent, pc, htmlContent, tocEntries, maxBottom, evictions, others>>

Measured == /\ InLoop
            /\ ~isPageBreak(element)
            /\ ~(isStartingNewPage /\ isEffectivelyEmptyBlock(clone))

\* Mutant: the lookahead clone that fits is left on the measuring page.
FitStep_probeLeft ==
  /\ Measured
  /\ used <= maxBottom
  /\ LET html1 == Append(currentPageHTML, clone)
         els1 == Append(currentPageElements, clone)
         mp1 == Append(measurePage, clone)
     IN IF isHeading(element) /\ hasNext
           /\ getUsedHeightPx(Append(mp1, nextElement)) > maxBottom
        THEN /\ pages' = FlushTo(pages, Pop(html1))
             /\ currentPageHTML' = <<element>>
             /\ currentPageElements' = <<element>>
             /\ measurePage' = <<element>>
             /\ evictions' = evictions \cup {<<"lookahead", element, nextElement>>}
        ELSE /\ pages' = pages
             /\ currentPageHTML' = html1
             /\ currentPageElements' = els1
             /\ measurePage' = IF isHeading(element) /\ hasNext
                               THEN Append(mp1, nextElement) ELSE mp1
             /\ UNCHANGED evictions
  /\ i' = i + 1
  /\ UNCHANGED <<elements, measureAttached, previewContent, pc, htmlContent, tocEntries, maxBottom, others>>

\* lines 1352-1387
FitStep ==
  /\ Measured
  /\ used <= maxBottom
  /\ LET html1 == Append(currentPageHTML, clone)
         els1 == Append(currentPageElements, clone)
         mp1 == Append(measurePage, clone)
     IN IF isHeading(element) /\ hasNext
           /\ getUsedHeightPx(Append(mp1, nextElement)) > maxBottom
        THEN /\ pages' = FlushTo(pages, Pop(html1))
             /\ currentPageHTML' = <<element>>
             /\ currentPageElements' = <<element>>
             /\ measurePage' = <<element>>
             /\ evictions' = evictions \cup {<<"lookahead", element, nextElement>>}
        ELSE /\ pages' = pages
             /\ currentPageHTML' = html1
             /\ currentPageElements' = els1
             /\ measurePage' = mp1
             /\ UNCHANGED evictions
  /\ i' = i + 1
  /\ UNCHANGED <<elements, measureAttached, previewContent, pc, htmlContent, tocEntries, maxBottom, others>>

\* lines 1391-1398
SplitStep ==
  /\ Measured
  /\ used > maxBottom
  /\ Len(measurePage) + 1 = 1
  /\ splitElementBeforeFirstImage(element) # <<>>
  /\ elements' = Splice(elements, i, splitElementBeforeFirstImage(element))
  /\ measurePage' = <<>>
  /\ UNCHANGED <<i, pages, currentPageHTML, currentPageElements,
                 measureAttached, previewContent, pc, htmlContent, tocEntries, maxBottom, evictions, others>>

\* lines 1391-1405
AcceptOversizedStep ==
  /\ Measured
  /\ used > maxBottom
  /\ Len(measurePage) + 1 = 1
  /\ splitElementBeforeFirstImage(element) = <<>>
  /\ measurePage' = <<clone>>
  /\ currentPageHTML' = Append(currentPageHTML, clone)
  /\ currentPageElements' = Append(currentPageElements, clone)
  /\ i' = i + 1
  /\ UNCHANGED <<elements, pages, measureAttached, previewContent, pc, htmlContent, tocEntries, maxBottom, evictions, others>>

\* lines 1407-1446
OverflowMoveStep ==
  /\ Measured
  /\ used > maxBottom
  /\ Len(measurePage) + 1 # 1
  /\ IF Len(currentPageHTML) = 0 /\ splitElementBeforeFirstImage(element) # <<>>
     THEN /\ elements' = Splice(elements, i, splitElementBeforeFirstImage(element))
          /\ UNCHANGED <<i, pages, currentPageHTML, currentPageElements, measurePage,
                         evictions>>
     ELSE /\ IF Len(currentPageElements) > 0 /\ isHeading(Last(currentPageElements))
             THEN LET orphanedHeading == Last(currentPageElements)
                  IN /\ pages' = FlushTo(pages, Pop(currentPageHTML))
                     /\ currentPageHTML' = <<orphanedHeading, element>>
                     /\ currentPageElements' = <<orphanedHeading, element>>
                     /\ measurePage' = <<orphanedHeading, element>>
                     /\ evictions' = evictions
                                       \cup {<<"overflow", orphanedHeading, element>>}
             ELSE /\ pages' = FlushTo(pages, currentPageHTML)
                  /\ currentPageHTML' = <<element>>
                  /\ currentPageElements' = <<element>>
                  /\ measurePage' = <<element>>
                  /\ UNCHANGED evictions
          /\ i' = i + 1
          /\ UNCHANGED elements
  /\ UNCHANGED <<measureAttached, previewContent, pc, htmlContent, tocEntries, maxBottom, others>>

\* line 1449
FinalFlush ==
  /\ pc = "loop"
  /\ i > Len(elements)
  /\ pages' = FlushTo(pages, currentPageHTML)
  /\ pc' = "filter"
  /\ UNCHANGED <<elements, i, currentPageHTML, currentPageElements,
                 measurePage, measureAttached, previewContent, htmlContent, tocEntries, maxBottom, evictions, others>>

\* lines 1465-1468
FilterPages ==
  /\ pc = "filter"
  /\ pages' = FilterLeadingEmpty(pages)
  /\ pc' = "render"
  /\ UNCHANGED <<elements, i, currentPageHTML, currentPageElements,
                 measurePage, measureAttached, previewContent, htmlContent, tocEntries, maxBottom, evictions, others>>

\* lines 1470-1487
RenderPages ==
  /\ pc = "render"
  /\ measureAttached' = FALSE
  /\ previewContent' = RenderedPages(pages)
  /\ pc' = "done"
  /\ tocEntries' = IF Len(pages) = 0 THEN tocEntries
                   ELSE updateTOCPageNumbers(RenderedPages(pages), tocEntries)
  /\ UNCHANGED <<elements, i, pages, currentPageHTML, currentPageElements,
                 measurePage, htmlContent, maxBottom, evictions, others>>

Next ==
  \/ PageBreakStep
  \/ SkipEmptyStep
  \/ FitStep
  \/ SplitStep
  \/ AcceptOversizedStep
  \/ OverflowMoveStep
  \/ FinalFlush
  \/ FilterPages
  \/ RenderPages

Spec == Init /\ [][Next]_vars

\* ------------------------------------------------ a step of the loop throws
\* The clone has been appended and the measurement (or the split that follows
\* it) throws: the exception leaves paginateContent, nothing after the
\* throwing statement runs.
ThrowStep ==
  /\ Measured
  /\ measurePage' = Append(measurePage, clone)
  /\ pc' = "thrown"
  /\ UNCHANGED <<elements, i, pages, currentPageHTML, currentPageElements,
                 measureAttached, previewContent, htmlContent, tocEntries, maxBottom, evictions, others>>

NextThrow == Next \/ ThrowStep

SpecThrow == Init /\ [][NextThrow]_vars

\* ------------------------------------------------ the editor and its timer
\* Source edits made, and milliseconds on the clock.
MaxEdits == 3
MaxTime == 1200

\* setTimeout(..., 300)
DebounceMs == 300

\* The clock moves in steps of 100 or 200 ms.
TickSteps == {100, 200}

\* The packer is not running.
PaginateIdle ==
  /\ elements = <<>>
  /\ htmlContent = <<>>
  /\ i = 1
  /\ pages = <<>>
  /\ currentPageHTML = <<>>
  /\ currentPageElements = <<>>
  /\ measurePage = <<>>
  /\ measureAttached = FALSE
  /\ previewContent = <<>>
  /\ pc = "done"
  /\ tocEntries = <<>>
  /\ maxBottom = PageHeight
  /\ evictions = {}

\* A timer that is due has its task in the queue before any later event:
\* the event loop runs it first.
TimerDue == \E t \in timers : t.due <= now

\* The number of calls of handleMarkdownInputChange so far.
Handled == Len(SelectSeq(edits, LAMBDA e : e.handled))

\* Mutant: the pending timer is not cleared.
handleMarkdownInputChange_noClear ==
  /\ timers' = timers \cup {[id |-> Handled + 1, due |-> now + DebounceMs]}
  /\ debounceTimer' = Handled + 1

\* clearTimeout(debounceTimer); debounceTimer = setTimeout(..., 300)
handleMarkdownInputChange ==
  /\ timers' = {t \in timers : t.id # debounceTimer}
                 \cup {[id |-> Handled + 1, due |-> now + DebounceMs]}
  /\ debounceTimer' = Handled + 1

\* updatePreview: reads the editor text and paginates it.
updatePreview(by, text, n, c) ==
  runs' = Append(runs, [at |-> now, text |-> text, by |-> by, n |-> n, c |-> c])

CanEdit ==
  /\ ~TimerDue
  /\ Len(edits) < MaxEdits
  /\ now + DebounceMs <= MaxTime

\* The user types: the editor raises 'change' / 'input'.
TypedEdit ==
  /\ CanEdit
  /\ markdownText' = markdownText + 1
  /\ edits' = Append(edits, [at |-> now, handled |-> TRUE])
  /\ handleMarkdownInputChange
  /\ UNCHANGED <<now, hasCodeMirror, runs, pvars, svars>>

\* The user presses a shortcut (Ctrl+Enter and the like): the handler inserts
\* a snippet, then calls updatePreview itself. CodeMirror raises 'change' for
\* the insertion; a textarea raises no 'input' for an assignment to value.
ShortcutEdit ==
  /\ CanEdit
  /\ markdownText' = markdownText + 1
  /\ edits' = Append(edits, [at |-> now, handled |-> hasCodeMirror])
  /\ IF hasCodeMirror THEN handleMarkdownInputChange
                      ELSE UNCHANGED <<timers, debounceTimer>>
  /\ updatePreview("direct", markdownText + 1, Len(edits) + 1,
                   Handled + (IF hasCodeMirror THEN 1 ELSE 0))
  /\ UNCHANGED <<now, hasCodeMirror, pvars, svars>>

\* The timer's callback runs when the timer is due.
TimerFires ==
  /\ \E t \in timers :
       /\ t.due <= now
       /\ timers' = timers \ {t}
  /\ updatePreview("timer", markdownText, Len(edits), Handled)
  /\ UNCHANGED <<now, markdownText, hasCodeMirror, debounceTimer, edits, pvars, svars>>

\* Time passes, up to the next timer that is due.
Tick ==
  /\ \E d \in TickSteps :
       /\ now + d <= MaxTime
       /\ \A t \in timers : now + d <= t.due
       /\ now' = now + d
  /\ UNCHANGED <<markdownText, hasCodeMirror, debounceTimer, timers, edits, runs,
                 pvars, svars>>

InitDebounce ==
  /\ PaginateIdle
  /\ SessionIdle
  /\ DebounceIdle
  /\ hasCodeMirror \in BOOLEAN

NextDebounce == TypedEdit \/ ShortcutEdit \/ TimerFires \/ Tick

\* The event loop runs a timer that is due, and time does not stop.
SpecDebounce ==
  InitDebounce /\ [][NextDebounce]_vars /\ WF_vars(TimerFires) /\ WF_vars(Tick)

\* ------------------------------------------------------------ the session
\* Calls of ensureSession / resetSessionWorkspace in one run, and sessions
\* the server creates in it.
MaxCalls == 2
MaxIssued == 2

\* The session ids that storage may hold when the page loads.
StoredIds == {1, 2}

\* The id of the k-th session the server creates.
IssuedId(k) == Cardinality(StoredIds) + k

IdleCall ==
  [pc |-> "idle", read |-> <<0, 0>>, candidates |-> <<>>, tried |-> <<>>,
   acked |-> {}, ret |-> 0, created |-> FALSE, sid |-> 0]

\* candidates: the per-tab id, then the persisted id if it is another one.
Candidates(fromSession, fromPersist) ==
  (IF fromSession # 0 THEN <<fromSession>> ELSE <<>>)
    \o (IF fromPersist # 0 /\ fromPersist # fromSession THEN <<fromPersist>> ELSE <<>>)

\* ensureSession up to its first await, with the storage as given.
Started(fromSession, fromPersist) ==
  [IdleCall EXCEPT
     !.read = <<fromSession, fromPersist>>,
     !.candidates = Candidates(fromSession, fromPersist),
     !.pc = IF Candidates(fromSession, fromPersist) = <<>> THEN "create" ELSE "touch"]

\* bestEffortPruneOtherSessions / bestEffortDeleteSession are sent and not
\* awaited: the server may or may not have acted on them.
Pruned(live, keep) == {live, live \cap {keep}}
Deleted(live, id) == {live, live \ {id}}

CallEnsureSession(c) ==
  /\ calls[c].pc = "idle"
  /\ calls' = [calls EXCEPT ![c] = Started(sessionStored, persistStored)]
  /\ UNCHANGED <<currentSessionId, sessionStored, persistStored, serverSessions,
                 issued, pvars, dvars>>

\* Mutant: the acknowledged id is not written to localStorage.
TouchOk_noPersist(c) ==
  /\ calls[c].pc = "touch"
  /\ LET existing == calls[c].candidates[Len(calls[c].tried) + 1]
     IN /\ existing \in serverSessions
        /\ currentSessionId' = existing
        /\ sessionStored' = existing
        /\ UNCHANGED persistStored
        /\ serverSessions' \in Pruned(serverSessions, existing)
        /\ calls' = [calls EXCEPT ![c].tried = Append(@, existing),
                                  ![c].acked = @ \cup {existing},
                                  ![c].ret = existing,
                                  ![c].pc = "returned"]
  /\ UNCHANGED <<issued, pvars, dvars>>

\* lines 141-149: the touch of the next candidate is acknowledged.
TouchOk(c) ==
  /\ calls[c].pc = "touch"
  /\ LET existing == calls[c].candidates[Len(calls[c].tried) + 1]
     IN /\ existing \in serverSessions
        /\ currentSessionId' = existing
        /\ sessionStored' = existing
        /\ persistStored' = existing
        /\ serverSessions' \in Pruned(serverSessions, existing)
        /\ calls' = [calls EXCEPT ![c].tried = Append(@, existing),
                                  ![c].acked = @ \cup {existing},
                                  ![c].ret = existing,
                                  ![c].pc = "returned"]
  /\ UNCHANGED <<issued, pvars, dvars>>

\* lines 141-154: the touch fails (not ok, or fetch throws).
TouchFail(c) ==
  /\ calls[c].pc = "touch"
  /\ LET existing == calls[c].candidates[Len(calls[c].tried) + 1]
     IN /\ serverSessions' \in Deleted(serverSessions, existing)
        /\ calls' = [calls EXCEPT
                       ![c].tried = Append(@, existing),
                       ![c].pc = IF Len(calls[c].tried) + 1 < Len(calls[c].candidates)
                                 THEN "touch" ELSE "create"]
  /\ UNCHANGED <<currentSessionId, sessionStored, persistStored, issued, pvars, dvars>>

\* lines 157-164: the server creates a session.
CreateOk(c) ==
  /\ calls[c].pc = "create"
  /\ issued < MaxIssued
  /\ issued' = issued + 1
  /\ currentSessionId' = IssuedId(issued + 1)
  /\ sessionStored' = IssuedId(issued + 1)
  /\ persistStored' = IssuedId(issued + 1)
  /\ serverSessions' \in
       Pruned(serverSessions \cup {IssuedId(issued + 1)}, IssuedId(issued + 1))
  /\ calls' = [calls EXCEPT ![c].acked = @ \cup {IssuedId(issued + 1)},
                            ![c].ret = IssuedId(issued + 1),
                            ![c].created = TRUE,
                            ![c].pc = "returned"]
  /\ UNCHANGED <<pvars, dvars>>

\* lines 157-158: 'Could not create session' is thrown.
CreateFail(c) ==
  /\ calls[c].pc = "create"
  /\ calls' = [calls EXCEPT ![c].pc = "failed"]
  /\ UNCHANGED <<currentSessionId, sessionStored, persistStored, serverSessions,
                 issued, pvars, dvars>>

\* lines 168-170: resetSessionWorkspace up to its first await.
CallResetSessionWorkspace(c) ==
  /\ calls[c].pc = "idle"
  /\ LET sid == IF currentSessionId # 0 THEN currentSessionId ELSE sessionStored
     IN calls' = [calls EXCEPT ![c] =
                    IF sid = 0 THEN Started(sessionStored, persistStored)
                    ELSE [IdleCall EXCEPT !.pc = "reset", !.sid = sid]]
  /\ UNCHANGED <<currentSessionId, sessionStored, persistStored, serverSessions,
                 issued, pvars, dvars>>

\* lines 171-177: the reset is acknowledged for the session.
ResetOk(c) ==
  /\ calls[c].pc = "reset"
  /\ calls[c].sid \in serverSessions
  /\ currentSessionId' = calls[c].sid
  /\ sessionStored' = calls[c].sid
  /\ persistStored' = calls[c].sid
  /\ calls' = [calls EXCEPT ![c].pc = "reset done"]
  /\ UNCHANGED <<serverSessions, issued, pvars, dvars>>

\* lines 178-183: the reset fails; fall back to ensureSession.
ResetFail(c) ==
  /\ calls[c].pc = "reset"
  /\ sessionStored' = 0
  /\ currentSessionId' = 0
  /\ calls' = [calls EXCEPT ![c] = Started(0, persistStored)]
  /\ UNCHANGED <<persistStored, serverSessions, issued, pvars, dvars>>

\* Another tab of the same origin writes its session to localStorage.
OtherTabPersists ==
  /\ \E id \in StoredIds : id # persistStored /\ persistStored' = id
  /\ UNCHANGED <<currentSessionId, sessionStored, serverSessions, issued, calls,
                 pvars, dvars>>

\* The server drops a session (expiry, or the prune of another tab).
ServerDrops ==
  /\ \E id \in serverSessions : serverSessions' = serverSessions \ {id}
  /\ UNCHANGED <<currentSessionId, sessionStored, persistStored, issued, calls,
                 pvars, dvars>>

InitSession ==
  /\ PaginateIdle
  /\ DebounceIdle /\ hasCodeMirror = TRUE
  /\ currentSessionId = 0
  /\ sessionStored \in {0} \cup StoredIds
  /\ persistStored \in {0} \cup StoredIds
  /\ serverSessions \in SUBSET StoredIds
  /\ issued = 0
  /\ calls = [c \in 1..MaxCalls |-> IdleCall]

NextSession ==
  \/ \E c \in 1..MaxCalls :
       \/ CallEnsureSession(c)
       \/ TouchOk(c)
       \/ TouchFail(c)
       \/ CreateOk(c)
       \/ CreateFail(c)
       \/ CallResetSessionWorkspace(c)
       \/ ResetOk(c)
       \/ ResetFail(c)
  \/ OtherTabPersists
  \/ ServerDrops

SpecSession == InitSession /\ [][NextSession]_vars

\* ================================================================= claims
AllBlocks(ps) == Flatten(ps)
Contents(pv) == [k \in 1..Len(pv) |-> pv[k].content]
IsMarkerAt(m) == m \in 1..Len(htmlContent) /\ htmlContent[m].tag = "pb"
HoldsId(page, id) == \E j \in 1..Len(page) : page[j].id = id
NonEmptyContent(b) == b.tag # "pb" /\ ~isEffectivelyEmptyBlock(b)
TrimmedNonEmpty(s) ==
  LET sel == SelectSeq(s, NonEmptyContent)
  IN [k \in 1..Len(sel) |-> [sel[k] EXCEPT !.kids = DropLeadingBr(sel[k].kids)]]

\* C1 (as claimed): once packing is over, every page that measures more than
\* maxBottom holds exactly one block and the splitter finds no split point
\* in that block; every other page measures at most maxBottom.
NoOverflow ==
  pc # "loop" =>
    \A k \in 1..Len(pages) :
      getUsedHeightPx(pages[k]) > maxBottom =>
        /\ Len(pages[k]) = 1
        /\ splitElementBeforeFirstImage(pages[k][1]) = <<>>

\* C2 (as claimed): the blocks of the final pages, in page order, are the
\* blocks of the input after splitting that are not markers and not
\* effectively empty, in source order (compared up to page-start trimming).
PipelineConservation ==
  pc = "done" =>
    TrimmedNonEmpty(AllBlocks(Contents(previewContent))) = TrimmedNonEmpty(elements)

\* C4 (as claimed): unless the packer produced no page at all, no final page
\* consists only of effectively empty blocks.
NoBlankPage ==
  (pc = "done" /\ Len(pages) > 0) =>
    \A k \in 1..Len(previewContent) :
      \E j \in 1..Len(previewContent[k].content) :
        ~isEffectivelyEmptyBlock(previewContent[k].content[j])

\* C5: an input with no blocks, or with only markers and effectively empty
\* blocks, renders exactly one page, which is empty and labelled page 1.
SingleEmptyPage ==
  (pc = "done"
     /\ \A k \in 1..Len(htmlContent) :
          htmlContent[k].tag = "pb" \/ isEffectivelyEmptyBlock(htmlContent[k]))
    => previewContent = << [label |-> 1, content |-> <<>>] >>

SingleEmptyPageWitness ==
  /\ pc = "done"
  /\ Len(htmlContent) = 3
  /\ htmlContent[1].tag = "p" /\ htmlContent[1].kids = <<"br", "br">>
  /\ htmlContent[2].tag = "pb"
  /\ htmlContent[3].tag = "h" /\ htmlContent[3].kids = <<"br">>
  /\ Len(previewContent) = 1

\* C6: after the blank page filter, if two or more pages remain, the first
\* remaining page is not effectively empty.
NoLeadingBlank ==
  (pc \in {"render", "done"} /\ Len(pages) >= 2) =>
    ~isPageHtmlEffectivelyEmpty(pages[1])

\* An image-only page was packed in front of two further pages; the filter
\* has run, dropped it and left two pages.
NoLeadingBlankWitness ==
  /\ pc = "render"
  /\ Len(pages) = 2
  /\ elements[1].kids = <<"img">>
  /\ \A q \in 1..Len(pages) : ~HoldsId(pages[q], elements[1].id)

\* C7: every page the packer appends to its output list holds at least one
\* block, wherever the manual page breaks stand.
NoEmptyPageAppended ==
  \A k \in 1..Len(pages) : Len(pages[k]) >= 1

\* A marker at the start and a marker at the end of the input, one page.
NoEmptyPageAppendedWitness ==
  /\ pc = "filter"
  /\ Len(htmlContent) = 3
  /\ htmlContent[1].tag = "pb" /\ htmlContent[3].tag = "pb"
  /\ Len(pages) = 1

\* C8: no marker is a block of any page, blocks on the two sides of a marker
\* are on pages in that order, and a heading immediately followed by a marker
\* ends its page: nothing but that heading's own parts follows it there.
ManualBreakBoundary ==
  LET out == IF pc = "done" THEN Contents(previewContent)
             ELSE Append(pages, currentPageHTML)
  IN /\ \A p \in 1..Len(out) : \A j \in 1..Len(out[p]) : out[p][j].tag # "pb"
     /\ \A p \in 1..Len(out), q \in 1..Len(out) :
          \A a \in 1..Len(out[p]), b \in 1..Len(out[q]) :
            (\E m \in 1..Len(htmlContent) :
                IsMarkerAt(m) /\ out[p][a].id < m /\ m < out[q][b].id)
              => p < q
     /\ \A p \in 1..Len(out) : \A a \in 1..Len(out[p]) :
          (out[p][a].tag = "h" /\ IsMarkerAt(out[p][a].id + 1)) =>
            \A b \in (a + 1)..Len(out[p]) : out[p][b].id = out[p][a].id

\* A heading, then a marker, then content: two pages, the heading alone on
\* the first.
ManualBreakBoundaryWitness ==
  /\ pc = "done"
  /\ Len(htmlContent) = 3
  /\ htmlContent[1].tag = "h" /\ htmlContent[2].tag = "pb"
  /\ Len(previewContent) = 2
  /\ Len(previewContent[1].content) = 1
  /\ previewContent[1].content[1].id = 1
  /\ previewContent[2].content[1].id = 3

\* C9: without manual breaks, the visible text of the output pages in page
\* order is the visible text of the input in source order.
TextConservation ==
  (pc = "done" /\ \A k \in 1..Len(htmlContent) : htmlContent[k].tag # "pb")
    => StrippedText(AllBlocks(Contents(previewContent))) = StrippedText(htmlContent)

\* Text went through a split, a skipped block and a dropped leading page.
TextConservationWitness ==
  /\ pc = "done"
  /\ Len(htmlContent) = 3
  /\ \A k \in 1..3 : htmlContent[k].tag # "pb"
  /\ Len(elements) = 4
  /\ Len(StrippedText(htmlContent)) >= 2
  /\ Len(previewContent) >= 2

FitOnEmptyPage(H, B) == getUsedHeightPx(<<H, B>>) <= maxBottom
\* Blocks a and b are not split across two pages (a block skipped as
\* effectively empty at a page start is on no page).
SamePage(ps, a, b) ==
  \A p \in 1..Len(ps), q \in 1..Len(ps) :
    (HoldsId(ps[p], a) /\ HoldsId(ps[q], b)) => p = q

\* C3 (as claimed): a heading H immediately followed in the input by a
\* non-marker block B (which may be a heading) is on the page of B in the
\* packer's output whenever H and B together fit on an empty page.
HeadingNonOrphanAnyFollower ==
  pc = "filter" =>
    \A k \in 1..(Len(htmlContent) - 1) :
      (/\ htmlContent[k].tag = "h"
       /\ htmlContent[k + 1].tag # "pb"
       /\ FitOnEmptyPage(htmlContent[k], htmlContent[k + 1]))
        => SamePage(pages, k, k + 1)

\* C3 (amended): the same, for a follower B that is not itself a heading.
HeadingNonOrphan ==
  pc = "filter" =>
    \A k \in 1..(Len(htmlContent) - 1) :
      (/\ htmlContent[k].tag = "h"
       /\ htmlContent[k + 1].tag \notin {"pb", "h"}
       /\ FitOnEmptyPage(htmlContent[k], htmlContent[k + 1]))
        => SamePage(pages, k, k + 1)

\* The heading fitted at the bottom of the first page, its follower did not,
\* and the packer moved the heading to the follower's page.
HeadingNonOrphanWitness ==
  /\ pc = "filter"
  /\ Len(htmlContent) = 3
  /\ htmlContent[2].tag = "h" /\ htmlContent[3].tag = "p"
  /\ FitOnEmptyPage(htmlContent[2], htmlContent[3])
  /\ getUsedHeightPx(<<htmlContent[1], htmlContent[2]>>) <= maxBottom
  /\ Len(pages) = 2
  /\ HoldsId(pages[1], 1) /\ HoldsId(pages[2], 2) /\ HoldsId(pages[2], 3)

OnSomePage(a) == \E k \in 1..Len(previewContent) : HasAnchor(previewContent[k].content, a)
FirstPageWith(a) ==
  CHOOSE k \in 1..Len(previewContent) :
    /\ HasAnchor(previewContent[k].content, a)
    /\ \A m \in 1..(k - 1) : ~HasAnchor(previewContent[m].content, a)

\* C12: after pagination, every table of contents entry whose heading is on
\* some final page shows the number of the first such page, which is the
\* label rendered on that page.
TOCResolution ==
  pc = "done" =>
    \A a \in DOMAIN tocEntries :
      OnSomePage(a) =>
        /\ tocEntries[a] = FirstPageWith(a)
        /\ tocEntries[a] = previewContent[FirstPageWith(a)].label

\* An entry that was estimated on page 1 and whose heading landed on page 2.
TOCResolutionWitness ==
  /\ pc = "done"
  /\ \E a \in DOMAIN tocEntries :
       /\ estimatePageNumber(htmlContent, a) = 1
       /\ OnSomePage(a)
       /\ FirstPageWith(a) = 2
       /\ tocEntries[a] = 2

\* C13 (as claimed): an entry whose heading is on no final page shows the
\* "unnumbered" marker (0), not the page estimated before pagination.
TOCLookupMiss ==
  pc = "done" =>
    \A a \in DOMAIN tocEntries : ~OnSomePage(a) => tocEntries[a] = 0

\* C14 (as claimed): on every exit path of the run, the normal return and an
\* exception thrown in the middle of the packing loop, the measuring page
\* has been detached.
MeasureSurfaceDisposed ==
  pc \in {"done", "thrown"} => ~measureAttached

\* A block the splitter can split counts 3 (itself and its two parts), any
\* other block 1; the steps after the loop count 2, 1, 0.
RECURSIVE RemainingWork(_, _)
RemainingWork(es, from) ==
  IF from > Len(es) THEN 0
  ELSE (IF splitElementBeforeFirstImage(es[from]) # <<>> THEN 3 ELSE 1)
       + RemainingWork(es, from + 1)

Variant ==
  IF pc = "loop" THEN 3 + RemainingWork(elements, i)
  ELSE IF pc = "filter" THEN 2
  ELSE IF pc = "render" THEN 1
  ELSE 0

\* C15: the run terminates: until it is done some step is always possible
\* and changes the state, and every step (the retry after a split included)
\* strictly lowers a non-negative measure of the work left.
Termination ==
  /\ [](pc # "done" => ENABLED <<Next>>_vars)
  /\ [](Variant >= 0)
  /\ [][Variant' < Variant]_vars

\* A run that retried after a split and accepted a block that cannot be
\* split, and is over.
TerminationWitness ==
  /\ pc = "done"
  /\ Len(elements) = Len(htmlContent) + 1
  /\ \E k \in 1..Len(previewContent) :
       /\ Len(previewContent[k].content) = 1
       /\ getUsedHeightPx(previewContent[k].content) > maxBottom
       /\ splitElementBeforeFirstImage(previewContent[k].content[1]) = <<>>

\* C16 (as claimed): no block of an output page is both too tall for an empty
\* page and splittable (a first image preceded by non-empty content),
\* whether it was first in the buffer or moved there after an overflow.
OversizedSplit ==
  pc = "done" =>
    \A k \in 1..Len(previewContent) :
      \A j \in 1..Len(previewContent[k].content) :
        LET b == previewContent[k].content[j]
        IN ~(getUsedHeightPx(<<b>>) > maxBottom
             /\ splitElementBeforeFirstImage(b) # <<>>)

\* C19 (as claimed): the first block of every output page is in its trimmed
\* form (no leading line breaks) and is not effectively empty, whether it met
\* an empty buffer or was moved there after an overflow.
PageStartTrimmed ==
  pc = "done" =>
    \A k \in 1..Len(previewContent) :
      Len(previewContent[k].content) > 0 =>
        LET first == previewContent[k].content[1]
        IN /\ first = trimLeadingBrOnPageStart(first)
           /\ ~isEffectivelyEmptyBlock(first)

\* The splitter's result for el is none, or exactly <<before, after>>, both
\* of them blocks like el, neither effectively empty, their children
\* concatenating to el's children.
SplitShape(el) ==
  LET parts == splitElementBeforeFirstImage(el)
  IN \/ parts = <<>>
     \/ /\ Len(parts) = 2
        /\ \A q \in 1..2 : /\ parts[q].tag = el.tag
                           /\ parts[q].id = el.id
                           /\ ~isEffectivelyEmptyBlock(parts[q])
        /\ parts[1].kids \o parts[2].kids = el.kids

\* The positions of the blocks of es that stem from input block id.
PartsOf(es, id) == {j \in 1..Len(es) : es[j].id = id}

\* C18: for every block of the working list the splitter returns none or
\* exactly two non-empty parts (before, after) whose children concatenate to
\* the block's children; and the parts the packer spliced in for an input
\* block are two adjacent non-empty blocks that concatenate to that block.
SplitResultShape ==
  /\ \A j \in 1..Len(elements) : SplitShape(elements[j])
  /\ \A id \in 1..Len(htmlContent) :
       LET ps == PartsOf(elements, id)
       IN \/ ps = {}
          \/ \E j \in ps : ps = {j} /\ elements[j] = htmlContent[id]
          \/ \E j \in ps :
               /\ ps = {j, j + 1}
               /\ ~isEffectivelyEmptyBlock(elements[j])
               /\ ~isEffectivelyEmptyBlock(elements[j + 1])
               /\ elements[j].kids \o elements[j + 1].kids = htmlContent[id].kids
               /\ <<elements[j], elements[j + 1]>>
                    = splitElementBeforeFirstImage(htmlContent[id])

\* The packer has replaced an input block by the splitter's two parts.
SplitResultShapeWitness ==
  \E j \in 1..(Len(elements) - 1) :
    /\ elements[j].id = elements[j + 1].id
    /\ <<elements[j], elements[j + 1]>>
         = splitElementBeforeFirstImage(htmlContent[elements[j].id])
    /\ Len(elements[j].kids) >= 2

\* The input holds only ordinary blocks: no marker, no effectively empty
\* block, and every block fits on an empty page.
OrdinaryInput ==
  \A k \in 1..Len(htmlContent) :
    /\ htmlContent[k].tag # "pb"
    /\ ~isEffectivelyEmptyBlock(htmlContent[k])
    /\ getUsedHeightPx(<<htmlContent[k]>>) <= maxBottom

\* The first block of every page after the first does not fit on the page
\* before it.
GreedyPages(pv) ==
  \A k \in 2..Len(pv) :
    Len(pv[k].content) > 0 =>
      getUsedHeightPx(Append(pv[k - 1].content, pv[k].content[1])) > maxBottom

GreedyFill == (OrdinaryInput /\ evictions = {}) => GreedyPages(previewContent)

IsScenario(t, s) ==
  maxBottom = ScenarioPageHeight /\ htmlContent = ScenarioBlocks(t, s)

\* The largest number of fillers that fit on a page after the title and the
\* short paragraph.
FillersThatFit(t, s) ==
  CHOOSE m \in 0..Fillers :
    /\ t + s + m * FillerH <= ScenarioPageHeight
    /\ m = Fillers \/ t + s + (m + 1) * FillerH > ScenarioPageHeight

\* Exactly two pages, the first with the title, the short paragraph and the
\* fillers that fit, the second with the other fillers, none over the height.
ScenarioOutcome(t, s) ==
  /\ Len(previewContent) = 2
  /\ previewContent[1].content = SubSeq(htmlContent, 1, 2 + FillersThatFit(t, s))
  /\ previewContent[2].content
       = SubSeq(htmlContent, 3 + FillersThatFit(t, s), Len(htmlContent))
  /\ \A k \in 1..2 :
       getUsedHeightPx(previewContent[k].content) <= ScenarioPageHeight

\* C17 (as claimed): for ordinary input without heading eviction the first
\* block of every page after the first would have overflowed the page before
\* it; and on the 40-unit page a title, a short paragraph and 40 fillers of
\* 1.1 units that total at most 80 units give the two-page outcome.
GreedyFillTotal80 ==
  pc = "done" =>
    /\ GreedyFill
    /\ \A t \in TitleHeights : \A s \in ShortHeights :
         (IsScenario(t, s) /\ t + s + Fillers * FillerH <= 2 * ScenarioPageHeight)
           => ScenarioOutcome(t, s)

\* C17 (amended): the same, for a title and a short paragraph that leave room
\* for at least four fillers on page 1 (a total of at most 79.6 units), so
\* that the fillers page 1 cannot take fit on one page.
GreedyFillScenario ==
  pc = "done" =>
    /\ GreedyFill
    /\ \A t \in TitleHeights : \A s \in ShortHeights :
         (IsScenario(t, s) /\ t + s <= ScenarioPageHeight - 4 * FillerH)
           => ScenarioOutcome(t, s)

\* The scenario with the tallest admissible title and short paragraph has
\* been packed into two pages, the second one closed by greedy fill.
GreedyFillScenarioWitness ==
  /\ pc = "done"
  /\ \E t \in TitleHeights : \E s \in ShortHeights :
       /\ IsScenario(t, s)
       /\ t + s = ScenarioPageHeight - 4 * FillerH
       /\ Len(previewContent) = 2
       /\ Len(previewContent[1].content) = 2 + 4

\* C20 (as claimed): in the final output, every heading H that was taken off
\* its page because appending block B overflowed the page is on the page of
\* B, immediately before B.
HeadingCarried ==
  pc = "done" =>
    \A e \in evictions :
      e[1] = "overflow" =>
        \E k \in 1..Len(previewContent) :
          \E j \in 1..(Len(previewContent[k].content) - 1) :
            /\ previewContent[k].content[j] = e[2]
            /\ previewContent[k].content[j + 1] = e[3]

\* C21: at the start of every iteration the measuring page holds exactly the
\* blocks of the current-page buffer, in order, and every block of the buffer
\* was taken from a position before i: the lookahead block at position i is
\* neither on the measuring page nor in the buffer.
ProbeRetraction ==
  pc = "loop" =>
    /\ measurePage = currentPageElements
    /\ currentPageHTML = currentPageElements
    /\ \A k \in 1..Len(currentPageHTML) :
         \E j \in 1..(i - 1) :
           currentPageHTML[k] \in {elements[j], trimLeadingBrOnPageStart(elements[j])}

\* A heading has just been accepted after a probe of its follower that fit.
ProbeRetractionWitness ==
  /\ pc = "loop"
  /\ i >= 2 /\ i <= Len(elements)
  /\ Len(currentPageElements) >= 2
  /\ isHeading(elements[i - 1])
  /\ Last(currentPageElements) = elements[i - 1]
  /\ ~isPageBreak(elements[i])
  /\ getUsedHeightPx(Append(measurePage, elements[i])) <= maxBottom

\* The height the layout reports with the candidate block on the measuring
\* page, and with the lookahead block after it.
CandidateHeight == getUsedHeightPx(Append(measurePage, clone))
ProbeHeight == getUsedHeightPx(Append(Append(measurePage, clone), nextElement))

\* C22: a candidate page exactly as tall as the page content height fits:
\* the block is appended to the buffer (or, a heading whose follower fails
\* the probe, starts the next page) and is not treated as an overflow; a
\* probe of exactly that height keeps the heading, and the follower is then
\* measured at the same height and accepted by the append check.
FitBoundary ==
  [][/\ (Measured /\ CandidateHeight = maxBottom) =>
          /\ i' = i + 1
          /\ elements' = elements
          /\ \/ currentPageHTML' = Append(currentPageHTML, clone) /\ pages' = pages
             \/ /\ isHeading(element) /\ hasNext /\ ProbeHeight > maxBottom
                /\ currentPageHTML' = <<element>>
     /\ (Measured /\ CandidateHeight <= maxBottom /\ isHeading(element) /\ hasNext
           /\ ProbeHeight = maxBottom) =>
          /\ currentPageHTML' = Append(currentPageHTML, clone)
          /\ pages' = pages
          /\ ~isPageBreak(nextElement) =>
               (Measured' /\ CandidateHeight' = ProbeHeight)]_vars

\* A heading and its follower are on a page that is exactly full.
FitBoundaryWitness ==
  /\ pc = "loop"
  /\ Len(currentPageHTML) >= 2
  /\ isHeading(currentPageHTML[Len(currentPageHTML) - 1])
  /\ ~isHeading(Last(currentPageHTML))
  /\ getUsedHeightPx(measurePage) = maxBottom

IsSuffix(s, t) == \E k \in 0..Len(t) : s = SubSeq(t, k + 1, Len(t))

\* C23: the blank page filter returns a suffix of the page sequence it was
\* given, the remaining pages unchanged and in order, and returns at least
\* one page when it was given at least one.
FilterFrame ==
  [][pc = "filter" =>
       /\ IsSuffix(pages', pages)
       /\ Len(pages) >= 1 => Len(pages') >= 1]_vars

\* The filter has dropped a leading image-only page and kept the last page,
\* although it is effectively empty as well.
FilterFrameWitness ==
  /\ pc = "render"
  /\ Len(pages) = 1
  /\ isPageHtmlEffectivelyEmpty(pages[1])
  /\ Len(elements) >= 2
  /\ elements[1].kids = <<"img">>
  /\ ~HoldsId(pages[1], elements[1].id)

\* The edits that reached handleMarkdownInputChange, and the runs made while
\* k edits had been made / by the timer while k of them had been handled.
Changes == SelectSeq(edits, LAMBDA e : e.handled)
RunsAfterEdit(k) == {j \in 1..Len(runs) : runs[j].n = k}
TimerRunsAfterChange(k) ==
  {j \in 1..Len(runs) : runs[j].by = "timer" /\ runs[j].c = k}

DebounceTimerRunsInv ==
  /\ Cardinality(timers) <= 1
  /\ TimerRunsAfterChange(0) = {}
  /\ \A k \in 1..Len(Changes) :
       /\ Cardinality(TimerRunsAfterChange(k)) <= 1
       /\ (k < Len(Changes) /\ Changes[k + 1].at - Changes[k].at < DebounceMs)
            => TimerRunsAfterChange(k) = {}
       /\ ((k < Len(Changes) /\ Changes[k + 1].at - Changes[k].at >= DebounceMs)
             \/ (k = Len(Changes) /\ timers = {}))
            => TimerRunsAfterChange(k) # {}
       /\ \A j \in TimerRunsAfterChange(k) :
            /\ runs[j].at = Changes[k].at + DebounceMs
            /\ runs[j].text = runs[j].n

RECURSIVE PackedFrom(_, _, _, _)
PackedFrom(out, es, a, b) ==
  IF b > Len(es) THEN a > Len(out)
  ELSE IF /\ a <= Len(out)
          /\ ~isPageBreak(es[b])
          /\ out[a] \in {es[b], trimLeadingBrOnPageStart(es[b])}
       THEN PackedFrom(out, es, a + 1, b + 1)
  ELSE IF \/ isPageBreak(es[b])
          \/ isEffectivelyEmptyBlock(trimLeadingBrOnPageStart(es[b]))
       THEN PackedFrom(out, es, a, b + 1)
  ELSE FALSE

\* C25: the pages of the packer, read in page order, are the blocks of the
\* working list in source order, each once, without the markers and the
\* blocks skipped as effectively empty; the same holds during the run for
\* the pages and the buffer against the blocks already visited.
PackerOrder ==
  /\ pc = "loop" =>
       PackedFrom(Flatten(pages) \o currentPageHTML, SubSeq(elements, 1, i - 1), 1, 1)
  /\ pc = "filter" => PackedFrom(Flatten(pages), elements, 1, 1)

\* The packer has finished a run in which a heading was taken off its page
\* by the lookahead and a heading was carried along by an overflow.
PackerOrderWitness ==
  /\ pc = "filter"
  /\ Len(pages) >= 2
  /\ \E e \in evictions : e[1] = "lookahead"
  /\ \E e \in evictions : e[1] = "overflow"

\* The probe of heading element with follower nextElement reports a fit.
ProbeFits ==
  /\ Measured
  /\ getUsedHeightPx(Append(measurePage, clone)) <= maxBottom
  /\ isHeading(element) /\ hasNext /\ ~isPageBreak(nextElement)
  /\ getUsedHeightPx(Append(Append(measurePage, clone), nextElement)) <= maxBottom

\* The buffer ends with a heading and the block at i, not a marker, fits
\* after it: the state a probe that fits leaves behind.
FollowerFits ==
  /\ InLoop
  /\ ~isPageBreak(element)
  /\ Len(currentPageElements) > 0
  /\ isHeading(Last(currentPageElements))
  /\ getUsedHeightPx(Append(measurePage, element)) <= maxBottom

AppendedToSamePage ==
  currentPageHTML' = Append(currentPageHTML, element) /\ pages' = pages

\* C26 (as claimed): when the probe reports that heading H and its follower
\* B fit, H is kept, B is the next block measured, after H, and the next
\* iteration appends B to the page of H.
LookaheadPlacementAnyFollower ==
  [][/\ ProbeFits =>
          /\ currentPageHTML' = Append(currentPageHTML, clone) /\ pages' = pages
          /\ FollowerFits'
     /\ FollowerFits => AppendedToSamePage]_vars

\* C26 (amended): the same, unless B is itself a heading whose own follower
\* fails its probe: B then starts the next page, and H is left on its page.
LookaheadPlacement ==
  [][/\ ProbeFits =>
          /\ currentPageHTML' = Append(currentPageHTML, clone) /\ pages' = pages
          /\ FollowerFits'
     /\ FollowerFits =>
          \/ AppendedToSamePage
          \/ /\ isHeading(element) /\ hasNext
             /\ getUsedHeightPx(Append(Append(measurePage, element), nextElement))
                  > maxBottom
             /\ currentPageHTML' = <<element>>
             /\ pages' = Append(pages, currentPageHTML)]_vars

\* A heading was probed with its follower, and the follower, no heading, has
\* joined it on the first page.
LookaheadPlacementWitness ==
  /\ pc = "loop"
  /\ i = 3
  /\ Len(elements) >= 3
  /\ pages = <<>>
  /\ isHeading(elements[1]) /\ ~isHeading(elements[2])
  /\ Len(elements[2].kids) >= 2 /\ elements[2].kids[1] = "br"
  /\ currentPageHTML = <<elements[1], elements[2]>>

\* Neither part of a successful split of el can be split again: the first
\* holds no image, the second starts with the image-bearing child.
PartsAreFinal(el) ==
  LET parts == splitElementBeforeFirstImage(el)
  IN parts # <<>> =>
       /\ ~HasKid(parts[1].kids, "img")
       /\ parts[2].kids[1] = "img"
       /\ splitElementBeforeFirstImage(parts[1]) = <<>>
       /\ splitElementBeforeFirstImage(parts[2]) = <<>>

\* C27: no part of a split block can be split again, so every input block
\* stands for at most two blocks of the working list and of the output, and
\* the retries made so far are at most the number of input blocks.
SplitAtMostOnce ==
  /\ \A j \in 1..Len(elements) : PartsAreFinal(elements[j])
  /\ \A id \in 1..Len(htmlContent) :
       /\ Cardinality(PartsOf(elements, id)) <= 2
       /\ Cardinality(PartsOf(AllBlocks(Contents(previewContent)), id)) <= 2
  /\ Len(elements) - Len(htmlContent) <= Len(htmlContent)

\* Two input blocks were split, each into two blocks of the output.
SplitAtMostOnceWitness ==
  /\ pc = "done"
  /\ Len(elements) = Len(htmlContent) + 2
  /\ \E a \in 1..Len(htmlContent) : \E b \in 1..Len(htmlContent) :
       /\ a # b
       /\ Cardinality(PartsOf(AllBlocks(Contents(previewContent)), a)) = 2
       /\ Cardinality(PartsOf(AllBlocks(Contents(previewContent)), b)) = 2

\* The iteration is on the overflow path with prior content on the
\* measuring page (lines 1407-1446).
OverflowWithPriorContent ==
  /\ Measured
  /\ getUsedHeightPx(Append(measurePage, clone)) > maxBottom
  /\ Len(measurePage) + 1 # 1

IsPrefix(s, t) == Len(s) <= Len(t) /\ \A k \in 1..Len(s) : s[k] = t[k]

SeqRange(s) == {s[k] : k \in 1..Len(s)}

\* What holds of a call of ensureSession at its return statement.
AgreedReturn(r, current, perTab, persisted) ==
  /\ r.ret # 0
  /\ current = r.ret /\ perTab = r.ret /\ persisted = r.ret
  /\ r.ret \in r.acked
  /\ r.candidates = Candidates(r.read[1], r.read[2])
  /\ IsPrefix(r.tried, r.candidates)
  /\ IF r.created
     THEN /\ r.tried = r.candidates
          /\ r.acked \cap SeqRange(r.candidates) = {}
          /\ r.ret \notin SeqRange(r.candidates)
     ELSE /\ r.tried # <<>>
          /\ r.ret = r.tried[Len(r.tried)]
          /\ r.acked = {r.ret}

\* C28: Session agreement.  In the step in which a call of ensureSession
\* returns, currentSessionId, the per-tab stored id and the persisted
\* stored id all equal the returned id; the id was acknowledged by the
\* server in this call, as the first stored candidate whose touch
\* succeeded (candidates tried per-tab first, then persisted) or as a
\* newly created session; and a session was created only after every
\* stored candidate had been tried and none acknowledged.
SessionAgreement ==
  [][\A c \in 1..MaxCalls :
       (calls[c].pc # "returned" /\ calls'[c].pc = "returned")
         => AgreedReturn(calls'[c], currentSessionId', sessionStored', persistStored')]_vars

\* A call returned the persisted id after the touch of the per-tab id
\* had failed, and another call returned a session it had to create.
SessionAgreementWitness ==
  /\ \E c \in 1..MaxCalls :
       /\ calls[c].pc = "returned" /\ ~calls[c].created
       /\ Len(calls[c].tried) = 2
       /\ calls[c].read[1] # 0
       /\ calls[c].ret = calls[c].read[2]
  /\ \E c \in 1..MaxCalls :
       /\ calls[c].pc = "returned" /\ calls[c].created
       /\ calls[c].tried # <<>>

====
